---- MODULE Spec2Model ----
(***************************************************************************)
(* A model of the complaint-tracking backend of src/server.js: the four    *)
(* collections the complaint and authentication routes use (User, Admin,   *)
(* Complaint, Status) and the route handlers that read and write them.     *)
(*                                                                         *)
(* Every handler is an async function.  Between two awaits a handler runs  *)
(* alone (Node's event loop), and each awaited store operation is atomic   *)
(* in the store, so a handler is cut at its store operations: one action   *)
(* per store operation, made of the local code that precedes it, the       *)
(* operation itself and, for the last one, the response.  Handlers of      *)
(* different requests interleave at these cuts.  Any awaited store         *)
(* operation may reject (a storage failure); the handler's catch block     *)
(* then answers 500.                                                       *)
(*                                                                         *)
(* The timestamps of the documents (createdAt, updatedAt) are not kept,    *)
(* and the event and feedback routes, which use collections of their own,  *)
(* are left out.                                                           *)
(***************************************************************************)
EXTENDS Integers, Sequences, FiniteSets, Bags, TLC

VARIABLES
  users,       \* the User collection, in insertion order
  admins,      \* the Admin collection, in insertion order
  complaints,  \* the Complaint collection; a complaint's _id is its position
  statuses,    \* the Status collection (the status history log), in insertion order
  inflight,    \* bag of the requests that are between two store operations
  response,    \* what the last step sent with res.status(..).json(..), if anything
  admitted,    \* the number of complaint requests that have reached a write so far
  signups,     \* history: the (class, username, password) of every successful signup
  writeFailed, \* history: a save() of a complaint or of a status record has rejected
  updated      \* history: for each complaint, the status updates of it that answered 200

vars ==
  <<users, admins, complaints, statuses, inflight, response, admitted, signups, writeFailed,
    updated>>

----------------------------------------------------------------------------
(* Bounds of the model *)

\* signups that may be between their two store operations at the same time
MaxInFlight == 2
\* complaint requests (submissions, and status updates that find their
\* complaint) that a behaviour holds, at the same time or one after another
MaxRequests == 3

----------------------------------------------------------------------------
(* Request inputs *)

\* a field the request body does not carry (undefined), or carries empty
Undefined == "undefined"
\* an e-mail address is a sequence of pieces; the empty one is a missing e-mail
NoEmail == <<>>

Usernames == {"alice", "bob"}
Passwords == {"pw1", "pw2"}
UserEmails == {<<"a", "@mail.com">>, <<"b", "@mail.com">>}
AdminEmails == {<<"a", "@admin.com">>, <<"b", "@admin.com">>}
\* addresses outside the admin domain: another domain, and one that holds the
\* admin suffix without ending with it
OtherEmails == {<<"a", "@mail.com">>, <<"a", "@admin.com", ".org">>}

Body(username, email, password) ==
  [username |-> username, email |-> email, password |-> password]

\* the password a username signs up with: each its own, so that a login can
\* try the password of another account
SignupPassword(username) == IF username = "alice" THEN "pw1" ELSE "pw2"

\* the complete bodies, and one body for each field left out
UserSignupBodies ==
  {Body(u, e, SignupPassword(u)) : u \in Usernames, e \in UserEmails}
    \cup {Body(Undefined, <<"a", "@mail.com">>, "pw1"), Body("alice", NoEmail, "pw1"),
          Body("alice", <<"a", "@mail.com">>, Undefined)}
    \* a user may sign up with an address of the admin domain
    \cup {Body("bob", <<"a", "@admin.com">>, SignupPassword("bob"))}

AdminSignupBodies ==
  {Body(u, e, SignupPassword(u)) : u \in Usernames, e \in AdminEmails \cup OtherEmails}
    \cup {Body(Undefined, <<"a", "@admin.com">>, "pw1"), Body("alice", NoEmail, "pw1"),
          Body("alice", <<"a", "@admin.com">>, Undefined)}

LoginBodies ==
  {[username |-> u, password |-> p] : u \in Usernames, p \in Passwords}
    \cup {[username |-> "alice", password |-> Undefined]}


----------------------------------------------------------------------------
(* Responses *)

NoBody == [username |-> Undefined, email |-> NoEmail, password |-> Undefined]

NoResponse == [kind |-> "none", code |-> 0, text |-> "", error |-> "", body |-> NoBody]

\* res.status(code).json({error | message: text}); error is what the catch
\* block logged with console.error, "" when nothing was thrown
Respond(kind, code, text, error, body) ==
  [kind |-> kind, code |-> code, text |-> text, error |-> error, body |-> body]

----------------------------------------------------------------------------
(* bcryptjs *)

SaltRounds == 10

\* the salt bcrypt draws for a new hash: a random value no earlier hash of the
\* collection used, here the number of the hash
FreshSalt(coll) == {Len(coll) + 1}

\* bcrypt.hash(password, 10): a fresh salt, and a digest of salt and password
BcryptHash(password, salt) ==
  [rounds |-> SaltRounds, salt |-> salt, digest |-> <<salt, password>>]

BcryptCompareAlwaysTrue(password, hash) == TRUE

\* bcrypt.compare(password, hash): hash the candidate with the stored salt
BcryptCompare(password, hash) ==
  BcryptHash(password, hash.salt) = hash

----------------------------------------------------------------------------
(* The store *)

\* Model.findOne(filter), given the positions of the documents the filter
\* matches: the store returns one matching document, whichever its query plan
\* meets first; 0 stands for null
FindOne(matching) ==
  IF matching = {} THEN {0} ELSE matching

\* doc.save() of a new document: an insert, at the end of the collection
Insert(coll, doc) == Append(coll, doc)

\* an insert that replaces the last stored document
InsertOverLast(coll, doc) ==
  IF coll = <<>> THEN <<doc>> ELSE [coll EXCEPT ![Len(coll)] = doc]

\* newStatus.save(), initialStatus.save(): the insert of a status record
InsertStatus(log, record) == Insert(log, record)

NoUniqueIndex(coll, doc) == TRUE

\* one unique index over the accounts of both classes
SharedUniqueIndex(coll, doc) ==
  \A i \in 1..Len(users \o admins) :
     (users \o admins)[i].username # doc.username /\ (users \o admins)[i].email # doc.email

\* the unique indexes on username and on email (unique: true): an insert of
\* a document that repeats either value of a stored one is rejected (E11000)
UniqueIndexOK(coll, doc) ==
  \A i \in 1..Len(coll) :
     coll[i].username # doc.username /\ coll[i].email # doc.email

\* required: true on username, email and password
AccountValid(doc) ==
  doc.username # Undefined /\ doc.email # NoEmail

----------------------------------------------------------------------------
(* Signup and login, common to both account classes *)

EmailRegistered == "Email already registered"
UsernameTaken == "Username already taken"

ConflictErrorSwapped(existing, email) ==
  IF existing.email = email THEN UsernameTaken ELSE EmailRegistered

\* existingUser.email === email ? "Email already registered" : "Username already taken"
ConflictError(existing, email) ==
  IF existing.email = email THEN EmailRegistered ELSE UsernameTaken

\* the filter { $or: [{ email }, { username }] }; an undefined value reaches
\* the store as null and matches no stored account (both fields are required)
SignupFilter(body, doc) ==
  \/ body.email # NoEmail /\ doc.email = body.email
  \/ body.username # Undefined /\ doc.username = body.username

\* the login handlers after findOne: user is the document found, 0 for none
LoginResponse(kind, coll, user, body, okText) ==
  IF user = 0
    THEN Respond(kind, 401, "Invalid username", "", body)
    ELSE IF body.password = Undefined
      THEN Respond(kind, 500, "Login failed. Please try again.", "bcrypt", body)
      ELSE IF ~BcryptCompare(body.password, coll[user].password)
        THEN Respond(kind, 401, "Invalid password", "", body)
        ELSE Respond(kind, 200, okText, "", body)

\* a handler step runs once the previous step's response has left the process
Ready == response.kind = "none"

HasRoom == Ready /\ BagCardinality(inflight) < MaxInFlight

\* the response is written to the socket
Deliver ==
  /\ ~Ready
  /\ response' = NoResponse
  /\ UNCHANGED <<users, admins, complaints, statuses, inflight, admitted, signups, writeFailed, updated>>

Start(req) == inflight' = inflight (+) SetToBag({req})

\* the end of a handler that takes every request in progress with it
FinishAll(req) == inflight' = EmptyBag

Finish(req) == inflight' = inflight (-) SetToBag({req})

----------------------------------------------------------------------------
(* POST /user/signup *)

\* lines 84-91: findOne, and the conflict answer
UserSignupFind ==
  /\ HasRoom
  /\ \E body \in UserSignupBodies :
       \/ /\ response' = Respond("userSignup", 500, "Signup failed. Please try again.",
                                 "storage", NoBody)
          /\ UNCHANGED inflight
       \/ \E existing \in FindOne({i \in 1..Len(users) : SignupFilter(body, users[i])}) :
            IF existing # 0
              THEN /\ response' = Respond("userSignup", 400,
                                          ConflictError(users[existing], body.email), "", body)
                   /\ UNCHANGED inflight
              ELSE /\ response' = NoResponse
                   /\ Start([kind |-> "userSignup", body |-> body])
  /\ UNCHANGED <<users, admins, complaints, statuses, admitted, signups, writeFailed, updated>>

\* lines 93-99: hash, save, and the answer
UserSignupSave ==
  \E req \in BagToSet(inflight) :
    /\ Ready
    /\ req.kind = "userSignup"
    /\ Finish(req)
    /\ LET Fail(error) ==
             /\ response' = Respond("userSignup", 500, "Signup failed. Please try again.",
                                    error, req.body)
             /\ UNCHANGED <<users, signups>>
       IN
       IF req.body.password = Undefined
         THEN Fail("bcrypt")
         ELSE \E salt \in FreshSalt(users) :
           LET newUser == [username |-> req.body.username, email |-> req.body.email,
                           password |-> BcryptHash(req.body.password, salt)] IN
           IF ~AccountValid(newUser)
             THEN Fail("validation")
             ELSE IF ~UniqueIndexOK(users, newUser)
               THEN Fail("duplicate key")
               ELSE \/ Fail("storage")
                    \/ /\ users' = Append(users, newUser)
                       /\ signups' = signups \cup
                            {<<"user", req.body.username, req.body.password>>}
                       /\ response' = Respond("userSignup", 201, "User signup successful!",
                                              "", req.body)
    /\ UNCHANGED <<admins, complaints, statuses, admitted, writeFailed, updated>>

(* POST /user/login *)

\* lines 104-120
UserLogin ==
  /\ Ready
  /\ \E body \in LoginBodies :
       \/ response' = Respond("userLogin", 500, "Login failed. Please try again.",
                              "storage", NoBody)
       \/ \E user \in FindOne({i \in 1..Len(users) : users[i].username = body.username}) :
            response' = LoginResponse("userLogin", users, user, body, "Login successful!")
  /\ UNCHANGED <<users, admins, complaints, statuses, inflight, admitted, signups, writeFailed, updated>>

----------------------------------------------------------------------------
(* POST /admin/signup *)

AdminDomain == <<"@admin.com">>

Contains(s, suffix) ==
  \E i \in 1..Len(s) :
     i + Len(suffix) - 1 <= Len(s) /\ SubSeq(s, i, i + Len(suffix) - 1) = suffix

\* String.prototype.endsWith
EndsWith(s, suffix) ==
  /\ Len(s) >= Len(suffix)
  /\ SubSeq(s, Len(s) - Len(suffix) + 1, Len(s)) = suffix

\* !username || !email || !password
FieldMissing(body) ==
  body.username = Undefined \/ body.email = NoEmail \/ body.password = Undefined

\* lines 126-141: the two checks of the body, findOne, and the conflict answer
AdminSignupFind ==
  /\ HasRoom
  /\ \E body \in AdminSignupBodies :
       IF FieldMissing(body)
         THEN /\ response' = Respond("adminSignup", 400, "All fields are required", "", body)
              /\ UNCHANGED inflight
         ELSE IF ~EndsWith(body.email, AdminDomain)
           THEN /\ response' = Respond("adminSignup", 400, "Email must end with @admin.com",
                                       "", body)
                /\ UNCHANGED inflight
           ELSE
             \/ /\ response' = Respond("adminSignup", 500,
                                       "Admin signup failed. Please try again.", "storage", NoBody)
                /\ UNCHANGED inflight
             \/ \E existing \in FindOne({i \in 1..Len(admins) : SignupFilter(body, admins[i])}) :
                  IF existing # 0
                    THEN /\ response' = Respond("adminSignup", 400,
                                           ConflictError(admins[existing], body.email), "", body)
                         /\ UNCHANGED inflight
                    ELSE /\ response' = NoResponse
                         /\ Start([kind |-> "adminSignup", body |-> body])
  /\ UNCHANGED <<users, admins, complaints, statuses, admitted, signups, writeFailed, updated>>

\* lines 143-150: hash, save, and the answer
AdminSignupSave ==
  \E req \in BagToSet(inflight) :
    /\ Ready
    /\ req.kind = "adminSignup"
    /\ Finish(req)
    /\ LET Fail(error) ==
             /\ response' = Respond("adminSignup", 500,
                                    "Admin signup failed. Please try again.", error, req.body)
             /\ UNCHANGED <<admins, signups>>
       IN
       \E salt \in FreshSalt(admins) :
         LET newAdmin == [username |-> req.body.username, email |-> req.body.email,
                          password |-> BcryptHash(req.body.password, salt)] IN
         IF ~AccountValid(newAdmin) \/ ~UniqueIndexOK(admins, newAdmin)
           THEN Fail(IF AccountValid(newAdmin) THEN "duplicate key" ELSE "validation")
           ELSE \/ Fail("storage")
                \/ /\ admins' = Append(admins, newAdmin)
                   /\ signups' = signups \cup
                        {<<"admin", req.body.username, req.body.password>>}
                   /\ response' = Respond("adminSignup", 201, "Admin signup successful!",
                                          "", req.body)
    /\ UNCHANGED <<users, complaints, statuses, admitted, writeFailed, updated>>

(* POST /admin/login *)

\* lines 156-172
AdminLogin ==
  /\ Ready
  /\ \E body \in LoginBodies :
       \/ response' = Respond("adminLogin", 500, "Login failed. Please try again.",
                              "storage", NoBody)
       \/ \E admin \in FindOne({i \in 1..Len(admins) : admins[i].username = body.username}) :
            response' = LoginResponse("adminLogin", admins, admin, body,
                                      "Admin login successful!")
  /\ UNCHANGED <<users, admins, complaints, statuses, inflight, admitted, signups, writeFailed, updated>>

----------------------------------------------------------------------------
(* Complaints and status records *)

\* roomNo of a complaint about a place without rooms
Null == "null"

\* the default of Complaint.status
DefaultStatus == "Yet to Begin"

\* the enum of Status.status
StatusEnum == {"Yet to Begin", "In Progress", "Resolved"}

\* what a caller may send as status: the enum, and a string outside it
StatusInputs == StatusEnum \cup {"Closed"}

\* a Date is a day (days since 1970-01-01, UTC) or Invalid Date
InvalidDate == [valid |-> FALSE, day |-> 0]

\* two days, and a string that is no date
DateStrings == {"2024-01-01", "2024-01-02", "soon"}

\* new Date(string), and the cast of a string to the Date type of the schema
ParseDate(str) ==
  CASE str = "2024-01-01" -> [valid |-> TRUE, day |-> 19723]
    [] str = "2024-01-02" -> [valid |-> TRUE, day |-> 19724]
    [] OTHER -> InvalidDate

NoFile == [present |-> FALSE, buffer |-> <<>>, mimetype |-> ""]
PngFile == [present |-> TRUE, buffer |-> <<137, 80, 78, 71>>, mimetype |-> "image/png"]

NoImage == [present |-> FALSE, data |-> <<>>, contentType |-> ""]

SubmitBody(complaintText, date, location, subLocation, roomNo, file) ==
  [username |-> "alice", complaintText |-> complaintText, date |-> date,
   location |-> location, subLocation |-> subLocation, roomNo |-> roomNo, file |-> file]

\* complaints of one day about a place without rooms and about one with
\* rooms, with a room number; a complaint of another day about the other
\* place without rooms, with a picture and no room number; a body without
\* its text and a body whose date is no date
SubmitBodies ==
  {SubmitBody("leak", "2024-01-01", l, "block A", "101", NoFile) : l \in {"mess", "hostel"}}
    \cup {SubmitBody("litter", "2024-01-02", "garden", Undefined, Undefined, PngFile),
          SubmitBody(Undefined, "2024-01-01", "hostel", "block A", "101", NoFile),
          SubmitBody("leak", "soon", "hostel", "block A", "101", NoFile)}

RoomNoOnlyMess(location, roomNo) ==
  IF location = "mess" THEN Null ELSE roomNo

\* location === "mess" || location === "garden" ? null : roomNo
RoomNo(location, roomNo) ==
  IF location = "mess" \/ location = "garden" THEN Null ELSE roomNo

\* new Complaint({...}), with the picture of the upload if there is one; the
\* _id is drawn here, and is the position the document will take
NewComplaint(body, id) ==
  [id |-> id,
   username |-> body.username,
   complaintText |-> body.complaintText,
   date |-> ParseDate(body.date),
   location |-> body.location,
   subLocation |-> body.subLocation,
   roomNo |-> RoomNo(body.location, body.roomNo),
   image |-> IF body.file.present
               THEN [present |-> TRUE, data |-> body.file.buffer,
                     contentType |-> body.file.mimetype]
               ELSE NoImage,
   status |-> DefaultStatus]

\* required: true on username, complaintText, date and location
ComplaintValid(complaint) ==
  /\ complaint.username # Undefined
  /\ complaint.complaintText # Undefined
  /\ complaint.date.valid
  /\ complaint.location # Undefined

NewStatusKeepsText(complaint, status) ==
  [complaintId |-> complaint.id,
   complaintText |-> "leak",
   location |-> complaint.location,
   subLocation |-> complaint.subLocation,
   status |-> status]

\* new Status({complaintId: complaint._id, ...}) from the complaint in memory
NewStatus(complaint, status) ==
  [complaintId |-> complaint.id,
   complaintText |-> complaint.complaintText,
   location |-> complaint.location,
   subLocation |-> complaint.subLocation,
   status |-> status]

\* a validation without the enum of status
StatusValidNoEnum(record) ==
  /\ record.complaintText # Undefined
  /\ record.location # Undefined

\* required: true on complaintId, complaintText, location and status, and the
\* enum of status
StatusValid(record) ==
  /\ record.complaintText # Undefined
  /\ record.location # Undefined
  /\ record.status \in StatusEnum

\* an insert that stores a complaint once, however often it is submitted
UpsertComplaint(coll, doc) ==
  IF \E i \in 1..Len(coll) : [coll[i] EXCEPT !.id = 0, !.status = ""] = [doc EXCEPT !.id = 0, !.status = ""]
    THEN coll
    ELSE Insert(coll, doc)

\* complaint.save() of a new complaint: the insert
InsertComplaint(coll, doc) == Insert(coll, doc)

\* the behaviour has room for one more complaint request
Admit ==
  /\ admitted < MaxRequests
  /\ admitted' = admitted + 1

\* what a complaint route's response is about
About(id, date, status) == [id |-> id, date |-> date, status |-> status]

----------------------------------------------------------------------------
(* POST /submit-complaint *)

\* lines 178-196: build the complaint and save it
SubmitComplaintSave ==
  /\ Ready
  /\ \E body \in SubmitBodies :
       LET complaint == NewComplaint(body, Len(complaints) + 1)
           Fail(error) ==
             /\ response' = Respond("submitComplaint", 500, "Failed to submit complaint",
                                    error, About(0, body.date, ""))
             /\ writeFailed' = TRUE
             /\ UNCHANGED <<complaints, inflight, admitted, updated>>
       IN
       IF ~ComplaintValid(complaint)
         THEN Fail("validation")
         ELSE \/ Fail("storage")
              \/ /\ Admit
                 /\ complaints' = InsertComplaint(complaints, complaint)
                 /\ updated' = Append(updated, 0)
                 /\ Start([kind |-> "submitComplaint", body |-> body,
                           complaint |-> complaint])
                 /\ response' = NoResponse
                 /\ UNCHANGED writeFailed
  /\ UNCHANGED <<users, admins, statuses, signups>>

\* lines 198-211: build the initial status record, save it, and answer
SubmitComplaintSaveStatus ==
  \E req \in BagToSet(inflight) :
    /\ Ready
    /\ req.kind = "submitComplaint"
    /\ Finish(req)
    /\ LET initialStatus == NewStatus(req.complaint, "Yet to Begin") IN
       \/ /\ response' = Respond("submitComplaint", 500, "Failed to submit complaint",
                                 IF StatusValid(initialStatus) THEN "storage" ELSE "validation",
                                 About(req.complaint.id, req.body.date, ""))
          /\ writeFailed' = TRUE
          /\ UNCHANGED statuses
       \/ /\ StatusValid(initialStatus)
          /\ statuses' = InsertStatus(statuses, initialStatus)
          /\ response' = Respond("submitComplaint", 201, "Complaint submitted successfully!",
                                 "", About(req.complaint.id, req.body.date, ""))
          /\ UNCHANGED writeFailed
    /\ UNCHANGED <<users, admins, complaints, admitted, signups, updated>>

----------------------------------------------------------------------------
(* POST /update-status/:date *)

DateFilterNever(date, doc) == FALSE

\* the filter { date: new Date(date) }
DateFilter(date, doc) == doc.date = date

\* lines 238-244: findOne, and the 404
UpdateStatusFind ==
  /\ Ready
  /\ \E date \in DateStrings, status \in StatusInputs :
       LET Answer(code, text, error) ==
             /\ response' = Respond("updateStatus", code, text, error, About(0, date, ""))
             /\ UNCHANGED <<inflight, admitted>>
       IN
       IF ~ParseDate(date).valid
         THEN Answer(500, "Failed to update status", "cast")
         ELSE \/ Answer(500, "Failed to update status", "storage")
              \/ \E found \in FindOne({i \in 1..Len(complaints) : DateFilter(ParseDate(date), complaints[i])}) :
                   IF found = 0
                     THEN Answer(404, "Complaint not found", "")
                     ELSE /\ Admit
                          /\ Start([kind |-> "updateStatus", pc |-> "saveComplaint",
                                    date |-> date, status |-> status,
                                    complaint |-> complaints[found],
                                    storedStatus |-> ""])
                          /\ response' = NoResponse
  /\ UNCHANGED <<users, admins, complaints, statuses, signups, writeFailed, updated>>

\* an updateMany on the date of the document
SaveStatusOfDate(coll, id, status, modified) ==
  [i \in 1..Len(coll) |->
     IF coll[i].date = coll[id].date THEN [coll[i] EXCEPT !.status = status] ELSE coll[i]]

\* a save that leaves a resolved complaint as it is
SaveStatusUnlessResolved(coll, id, status, modified) ==
  IF modified /\ coll[id].status # "Resolved"
    THEN [coll EXCEPT ![id].status = status]
    ELSE coll

\* complaint.save() of a loaded document: an update of the stored document
\* with its _id that sets the modified paths, here status (with updatedAt,
\* which the model does not keep)
SaveStatus(coll, id, status, modified) ==
  IF modified THEN [coll EXCEPT ![id].status = status] ELSE coll

\* lines 246-248: complaint.status = status; complaint.save().  The
\* assignment marks the path modified only when the value differs from the
\* one loaded, and save() sends the modified paths alone to the store.
UpdateStatusSaveComplaint ==
  \E req \in BagToSet(inflight) :
    /\ Ready
    /\ req.kind = "updateStatus"
    /\ req.pc = "saveComplaint"
    /\ LET id == req.complaint.id
           modified == req.status # req.complaint.status
       IN
       \/ /\ response' = Respond("updateStatus", 500, "Failed to update status", "storage",
                                 About(id, req.date, req.status))
          /\ writeFailed' = TRUE
          /\ Finish(req)
          /\ UNCHANGED complaints
       \/ /\ complaints' = SaveStatus(complaints, id, req.status, modified)
          /\ inflight' = (inflight (-) SetToBag({req})) (+)
               SetToBag({[req EXCEPT !.pc = "saveStatus",
                                     !.complaint.status = req.status,
                                     !.storedStatus = complaints'[id].status]})
          /\ response' = NoResponse
          /\ UNCHANGED writeFailed
    /\ UNCHANGED <<users, admins, statuses, admitted, signups, updated>>

\* lines 250-264: build the status record, save it, and answer
UpdateStatusSaveStatus ==
  \E req \in BagToSet(inflight) :
    /\ Ready
    /\ req.kind = "updateStatus"
    /\ req.pc = "saveStatus"
    /\ Finish(req)
    /\ LET newStatus == NewStatus(req.complaint, req.status) IN
       \/ /\ response' = Respond("updateStatus", 500, "Failed to update status",
                                 IF StatusValid(newStatus) THEN "storage" ELSE "validation",
                                 About(req.complaint.id, req.date, req.status))
          /\ writeFailed' = TRUE
          /\ UNCHANGED <<statuses, updated>>
       \/ /\ StatusValid(newStatus)
          /\ statuses' = InsertStatus(statuses, newStatus)
          /\ updated' = [updated EXCEPT ![req.complaint.id] = @ + 1]
          /\ response' = Respond("updateStatus", 200, "Status updated successfully", "",
                                 About(req.complaint.id, req.date, req.status))
          /\ UNCHANGED writeFailed
    /\ UNCHANGED <<users, admins, complaints, admitted, signups>>

----------------------------------------------------------------------------
(* GET /get-complaints *)

\* the alphabet of base64 (RFC 4648), by value
Base64Alphabet ==
  <<"A", "B", "C", "D", "E", "F", "G", "H", "I", "J", "K", "L", "M", "N", "O", "P",
    "Q", "R", "S", "T", "U", "V", "W", "X", "Y", "Z", "a", "b", "c", "d", "e", "f",
    "g", "h", "i", "j", "k", "l", "m", "n", "o", "p", "q", "r", "s", "t", "u", "v",
    "w", "x", "y", "z", "0", "1", "2", "3", "4", "5", "6", "7", "8", "9", "+", "/">>

Base64Char(value) == Base64Alphabet[value + 1]

\* Buffer.prototype.toString("base64"): three bytes make four characters,
\* and a last group of one or two bytes is padded with "="
RECURSIVE Base64(_)
Base64(bytes) ==
  IF Len(bytes) = 0
    THEN <<>>
    ELSE IF Len(bytes) = 1
      THEN <<Base64Char(bytes[1] \div 4), Base64Char((bytes[1] % 4) * 16), "=", "=">>
      ELSE IF Len(bytes) = 2
        THEN <<Base64Char(bytes[1] \div 4),
               Base64Char((bytes[1] % 4) * 16 + bytes[2] \div 16),
               Base64Char((bytes[2] % 16) * 4), "=">>
        ELSE <<Base64Char(bytes[1] \div 4),
               Base64Char((bytes[1] % 4) * 16 + bytes[2] \div 16),
               Base64Char((bytes[2] % 16) * 4 + bytes[3] \div 64),
               Base64Char(bytes[3] % 64)>>
             \o Base64(SubSeq(bytes, 4, Len(bytes)))

\* the image of a view: null, or a string, kept as its pieces
NullImage == [null |-> TRUE, uri |-> <<>>]

\* a view whose image is always null
ComplaintViewNoImage(complaint) == [complaint EXCEPT !.image = NullImage]

\* lines 217-226: { ...complaint._doc, image: `data:${contentType};base64,${base64Image}` },
\* or image: null when the complaint has no image data
ComplaintView(complaint) ==
  IF complaint.image.present
    THEN [complaint EXCEPT !.image =
            [null |-> FALSE,
             uri |-> <<"data:", complaint.image.contentType, ";base64,",
                       Base64(complaint.image.data)>>]]
    ELSE [complaint EXCEPT !.image = NullImage]

\* lines 215-232: Complaint.find(), the views, and the answer
GetComplaints ==
  /\ Ready
  /\ \/ response' = Respond("getComplaints", 500, "Failed to fetch complaints", "storage",
                             [views |-> <<>>])
     \/ response' = Respond("getComplaints", 200, "", "",
                             [views |-> [i \in 1..Len(complaints) |->
                                           ComplaintView(complaints[i])]])
  /\ UNCHANGED <<users, admins, complaints, statuses, inflight, admitted, signups, writeFailed, updated>>

(* GET /get-status *)

\* populate("complaintId", "complaintText location subLocation"): the
\* reference is replaced by the selected fields of the complaint it names,
\* or by null when no complaint has the _id
Populate(id) ==
  IF id \in 1..Len(complaints)
    THEN [null |-> FALSE, id |-> id, complaintText |-> complaints[id].complaintText,
          location |-> complaints[id].location,
          subLocation |-> complaints[id].subLocation]
    ELSE [null |-> TRUE, id |-> 0, complaintText |-> Undefined, location |-> Undefined,
          subLocation |-> Undefined]

\* lines 268-274: Status.find().populate(..), and the answer.  The two
\* queries of find and populate are taken in one step: no route changes or
\* removes the fields that populate selects.
GetStatus ==
  /\ Ready
  /\ \/ response' = Respond("getStatus", 500, "Error fetching status data", "storage",
                             [records |-> <<>>])
     \/ response' = Respond("getStatus", 200, "", "",
                             [records |-> [j \in 1..Len(statuses) |->
                                [statuses[j] EXCEPT !.complaintId = Populate(@)]]])
  /\ UNCHANGED <<users, admins, complaints, statuses, inflight, admitted, signups, writeFailed, updated>>

----------------------------------------------------------------------------
Init ==
  /\ users = <<>>
  /\ admins = <<>>
  /\ complaints = <<>>
  /\ statuses = <<>>
  /\ inflight = EmptyBag
  /\ response = NoResponse
  /\ admitted = 0
  /\ signups = {}
  /\ writeFailed = FALSE
  /\ updated = <<>>

AuthNext ==
  \/ UserSignupFind
  \/ UserSignupSave
  \/ UserLogin
  \/ AdminSignupFind
  \/ AdminSignupSave
  \/ AdminLogin
  \/ Deliver

\* the authentication routes
SpecAuth == Init /\ [][AuthNext]_vars

ComplaintNext ==
  \/ SubmitComplaintSave
  \/ SubmitComplaintSaveStatus
  \/ UpdateStatusFind
  \/ UpdateStatusSaveComplaint
  \/ UpdateStatusSaveStatus
  \/ Deliver

\* the complaint and status routes
SpecComplaint == Init /\ [][ComplaintNext]_vars

\* The complaint and status routes under the scheduling of Node and of the
\* driver: the driver settles every store operation, with its result or with
\* an error (a command that cannot be sent is rejected after the buffering
\* timeout), and the event loop runs the continuation of every settled await
\* and writes every response.  A continuation is not enabled while a response
\* is being written, so its fairness is the strong one.
SpecComplaintFair ==
  /\ SpecComplaint
  /\ SF_vars(SubmitComplaintSaveStatus)
  /\ SF_vars(UpdateStatusSaveComplaint)
  /\ SF_vars(UpdateStatusSaveStatus)
  /\ WF_vars(Deliver)

\* the store after alice has signed up as a user and bob as an admin
InitWithAccounts ==
  /\ users = <<[username |-> "alice", email |-> <<"a", "@mail.com">>,
                password |-> BcryptHash("pw1", 1)]>>
  /\ admins = <<[username |-> "bob", email |-> <<"b", "@admin.com">>,
                 password |-> BcryptHash("pw2", 1)]>>
  /\ complaints = <<>>
  /\ statuses = <<>>
  /\ inflight = EmptyBag
  /\ response = NoResponse
  /\ admitted = 0
  /\ signups = {<<"user", "alice", "pw1">>, <<"admin", "bob", "pw2">>}
  /\ writeFailed = FALSE
  /\ updated = <<>>

ReadNext ==
  \/ UserLogin
  \/ AdminLogin
  \/ GetComplaints
  \/ GetStatus
  \/ SubmitComplaintSave
  \/ SubmitComplaintSaveStatus
  \/ Deliver

\* the routes that only read, next to the submissions that fill what they
\* read, on a store that holds accounts
SpecRead == InitWithAccounts /\ [][ReadNext]_vars

Next ==
  \/ UserSignupFind
  \/ UserSignupSave
  \/ UserLogin
  \/ AdminSignupFind
  \/ AdminSignupSave
  \/ AdminLogin
  \/ SubmitComplaintSave
  \/ SubmitComplaintSaveStatus
  \/ UpdateStatusFind
  \/ UpdateStatusSaveComplaint
  \/ UpdateStatusSaveStatus
  \/ GetComplaints
  \/ GetStatus
  \/ Deliver

Spec == Init /\ [][Next]_vars

----------------------------------------------------------------------------
(* Properties of the authentication routes *)

Collection(class) == IF class = "user" THEN users ELSE admins

ClassOf(kind) == IF kind \in {"userSignup", "userLogin"} THEN "user" ELSE "admin"

HasEmail(coll, email) == \E i \in 1..Len(coll) : coll[i].email = email

HasUsername(coll, username) == \E i \in 1..Len(coll) : coll[i].username = username

\* a stored account other than the holder of the e-mail has the username
HasUsernameOnly(coll, username, email) ==
  \E i \in 1..Len(coll) : coll[i].username = username /\ coll[i].email # email

LastPiece(email) == IF Len(email) = 0 THEN "" ELSE email[Len(email)]

\* this step is a signup's lookup that found the store working and, for an
\* admin signup, a body that passed the two checks of the body
SignupLookedUp ==
  /\ response = NoResponse
  /\ response'.kind \in {"userSignup", "adminSignup"}
  /\ inflight' = inflight
  /\ response'.error # "storage"
  /\ response'.kind = "adminSignup" =>
       /\ response'.body.username # Undefined
       /\ response'.body.email # NoEmail
       /\ response'.body.password # Undefined
       /\ LastPiece(response'.body.email) = "@admin.com"

\* C6: within each account class no two stored accounts share a username and
\* no two share an e-mail, whatever the interleaving of the signups.
C6_UniqueAccounts ==
  \A class \in {"user", "admin"} :
    \A i, j \in 1..Len(Collection(class)) :
       i # j => /\ Collection(class)[i].username # Collection(class)[j].username
                /\ Collection(class)[i].email # Collection(class)[j].email

\* C6 witness: a signup that passed its own existence check loses the race:
\* its insert is rejected because another signup stored the name meanwhile.
C6_Witness ==
  /\ response.kind \in {"userSignup", "adminSignup"}
  /\ response.error = "duplicate key"
  /\ HasUsername(Collection(ClassOf(response.kind)), response.body.username)

\* C7 as stated: a signup that finds an account of its class with the requested
\* e-mail or username answers 400 and stores nothing; the answer is "Email
\* already registered" whenever some stored account has the e-mail, and
\* "Username already taken" only when none has the e-mail but one has the username.
C7_EmailCheckedFirst ==
  [][SignupLookedUp =>
       LET coll == Collection(ClassOf(response'.kind))
           body == response'.body
       IN  (HasEmail(coll, body.email) \/ HasUsername(coll, body.username)) =>
             /\ response'.code = 400
             /\ UNCHANGED <<users, admins>>
             /\ HasEmail(coll, body.email) => response'.text = EmailRegistered
             /\ response'.text = UsernameTaken <=>
                  (~HasEmail(coll, body.email) /\ HasUsername(coll, body.username))
    ]_vars

\* C7 amended: such a signup answers 400 and stores nothing; the answer is
\* "Email already registered" when some stored account has the e-mail and no
\* other stored account has the username, "Username already taken" when no
\* stored account has the e-mail, and either of the two, each true of the
\* store, when one account has the e-mail and another has the username.
C7_ConflictNamesTheMatch ==
  [][SignupLookedUp =>
       LET coll == Collection(ClassOf(response'.kind))
           body == response'.body
       IN  (HasEmail(coll, body.email) \/ HasUsername(coll, body.username)) =>
             /\ response'.code = 400
             /\ UNCHANGED <<users, admins>>
             /\ response'.text \in {EmailRegistered, UsernameTaken}
             /\ response'.text = EmailRegistered => HasEmail(coll, body.email)
             /\ response'.text = UsernameTaken =>
                  HasUsernameOnly(coll, body.username, body.email)
             /\ ~HasUsernameOnly(coll, body.username, body.email) =>
                  response'.text = EmailRegistered
             /\ ~HasEmail(coll, body.email) => response'.text = UsernameTaken
    ]_vars

\* C7 witness: a signup asks for the e-mail of one stored account and the
\* username of another, and is told that the e-mail is registered.
C7_Witness ==
  /\ response.kind \in {"userSignup", "adminSignup"}
  /\ response.code = 400
  /\ response.text = EmailRegistered
  /\ HasUsernameOnly(Collection(ClassOf(response.kind)), response.body.username,
                     response.body.email)

\* C8: once a signup of (u, p) has succeeded in a class, every later login of
\* that class that the store answers succeeds with (u, p), fails with 401
\* "Invalid password" with u and another password, and fails with 401 "Invalid
\* username" with a username that never signed up in the class.
C8_LoginAfterSignup ==
  [][(/\ response'.kind \in {"userLogin", "adminLogin"}
      /\ response'.error # "storage"
      /\ response'.body.password # Undefined) =>
       LET class == ClassOf(response'.kind)
           u == response'.body.username
           p == response'.body.password
           known == \E q \in Passwords : <<class, u, q>> \in signups
       IN  /\ <<class, u, p>> \in signups =>
                response'.code = 200 /\ response'.error = ""
           /\ (known /\ <<class, u, p>> \notin signups) =>
                response'.code = 401 /\ response'.text = "Invalid password"
           /\ ~known =>
                response'.code = 401 /\ response'.text = "Invalid username"
    ]_vars

\* C8 witness: a login with the username of a successful signup and another
\* password than the one signed up with is refused.
C8_Witness ==
  /\ response.kind \in {"userLogin", "adminLogin"}
  /\ response.code = 401
  /\ response.text = "Invalid password"
  /\ \E q \in Passwords :
       /\ q # response.body.password
       /\ <<ClassOf(response.kind), response.body.username, q>> \in signups

\* C9: an admin signup with a field missing answers 400 "All fields are
\* required"; with all fields and an e-mail that does not end with @admin.com
\* it answers 400 "Email must end with @admin.com", whatever the store holds;
\* neither stores an account, and every stored admin's e-mail ends with
\* @admin.com.
C9_AdminSignupChecks ==
  /\ [](\A i \in 1..Len(admins) : LastPiece(admins[i].email) = "@admin.com")
  /\ [][(response'.kind = "adminSignup" /\ response'.error # "storage") =>
          LET body == response'.body
              missing == body.username = Undefined \/ body.email = NoEmail
                           \/ body.password = Undefined
          IN  /\ missing =>
                   /\ response'.code = 400
                   /\ response'.text = "All fields are required"
                   /\ UNCHANGED admins
              /\ (~missing /\ LastPiece(body.email) # "@admin.com") =>
                   /\ response'.code = 400
                   /\ response'.text = "Email must end with @admin.com"
                   /\ UNCHANGED admins
      ]_vars

\* C9 witness: an admin signup with an e-mail outside the admin domain and a
\* username that is already stored is refused for its domain.
C9_Witness ==
  /\ response.kind = "adminSignup"
  /\ response.code = 400
  /\ response.text = "Email must end with @admin.com"
  /\ HasUsername(admins, response.body.username)
  /\ Len(admins) > 0

----------------------------------------------------------------------------
(* Properties of the complaint and status routes *)

\* the positions of the status records that refer to complaint id
RecordsOf(id) == {j \in 1..Len(statuses) : statuses[j].complaintId = id}

\* the last of them
LastRecordOf(id) == CHOOSE j \in RecordsOf(id) : \A k \in RecordsOf(id) : k <= j

\* no request is between two of its store operations
AtRest == BagToSet(inflight) = {}

\* the stored complaints of the day a date string names
StoredOn(date) ==
  {i \in 1..Len(complaints) :
     ParseDate(date).valid /\ complaints[i].date.day = ParseDate(date).day}

\* C1: in every reachable state every stored complaint has at least one status
\* record that refers to it.
C1_EveryComplaintHasStatus ==
  \A i \in 1..Len(complaints) : RecordsOf(i) # {}

\* C2: whenever no request is in progress and no write has failed, the last
\* status record of every complaint carries the complaint's current status.
C2_LatestStatusMatches ==
  (AtRest /\ ~writeFailed) =>
    \A i \in 1..Len(complaints) :
       /\ RecordsOf(i) # {}
       /\ statuses[LastRecordOf(i)].status = complaints[i].status

\* C3: a submission that answers 201 has added one complaint, with status
\* "Yet to Begin", and one status record that refers to it, with status "Yet to
\* Begin" and the complaint's text, location and sub-location; the two steps
\* add or change no other complaint and no other status record.
C3_SubmitAddsOnePair ==
  [][/\ (response'.kind = "submitComplaint" /\ response'.code = 201) =>
          /\ \E req \in BagToSet(inflight) :
               /\ req.kind = "submitComplaint"
               /\ req.complaint.id = response'.body.id
               /\ inflight' = inflight (-) SetToBag({req})
          /\ response'.body.id \in 1..Len(complaints)
          /\ complaints' = complaints
          /\ Len(statuses') = Len(statuses) + 1
          /\ SubSeq(statuses', 1, Len(statuses)) = statuses
          /\ LET record == statuses'[Len(statuses')]
                 complaint == complaints[response'.body.id]
             IN  /\ record.complaintId = response'.body.id
                 /\ record.status = "Yet to Begin"
                 /\ record.complaintText = complaint.complaintText
                 /\ record.location = complaint.location
                 /\ record.subLocation = complaint.subLocation
     /\ Len(complaints') # Len(complaints) =>
          /\ Len(complaints') = Len(complaints) + 1
          /\ SubSeq(complaints', 1, Len(complaints)) = complaints
          /\ complaints'[Len(complaints')].id = Len(complaints')
          /\ complaints'[Len(complaints')].status = "Yet to Begin"
          /\ statuses' = statuses
          /\ \E req \in BagToSet(inflight') :
               /\ req.kind = "submitComplaint"
               /\ req.complaint.id = Len(complaints')
               /\ inflight' = inflight (+) SetToBag({req})
    ]_vars

\* C3 witness: a second submission has answered 201: two complaints are
\* stored, and the log holds a record of each.
C3_Witness ==
  /\ response.kind = "submitComplaint"
  /\ response.code = 201
  /\ Len(complaints) = 2
  /\ RecordsOf(1) # {}
  /\ RecordsOf(2) # {}
  /\ statuses[Len(statuses)].complaintId = response.body.id

\* C4: a status update that answers 200 has set the stored status of the
\* complaint it matched to the new value, and appends one status record with
\* that status that refers to the complaint, leaving the earlier records as
\* they were.
C4_UpdateSetsStatus ==
  [][(response'.kind = "updateStatus" /\ response'.code = 200) =>
       \E req \in BagToSet(inflight) :
          /\ req.kind = "updateStatus"
          /\ inflight' = inflight (-) SetToBag({req})
          /\ req.storedStatus = req.status
          /\ Len(statuses') = Len(statuses) + 1
          /\ SubSeq(statuses', 1, Len(statuses)) = statuses
          /\ statuses'[Len(statuses')].complaintId = req.complaint.id
          /\ statuses'[Len(statuses')].status = req.status
    ]_vars

\* this step is a status update's lookup that found the store working and
\* gave its answer
UpdateLookedUp ==
  /\ response'.kind = "updateStatus"
  /\ inflight' = inflight
  /\ response'.error # "storage"

\* C5 as stated: a status update whose date matches no stored complaint
\* answers 404 and leaves both collections as they were.
C5_NoMatchIsNotFound ==
  [][(UpdateLookedUp /\ StoredOn(response'.body.date) = {}) =>
       /\ response'.code = 404
       /\ UNCHANGED <<complaints, statuses>>
    ]_vars

\* C5 amended: a status update whose date is a date that matches no stored
\* complaint answers 404, and only such an update does; one whose date is no
\* date answers 500; both leave the two collections as they were.
C5_NoMatchChangesNothing ==
  [][UpdateLookedUp =>
       /\ UNCHANGED <<complaints, statuses>>
       /\ response'.body.date \in {"2024-01-01", "2024-01-02"} =>
            (response'.code = 404 <=> StoredOn(response'.body.date) = {})
       /\ response'.body.date = "soon" => response'.code = 500
       /\ response'.code \in {404, 500}
    ]_vars

\* C5 witness: a complaint is stored, and an update for another day is
\* answered 404.
C5_Witness ==
  /\ response.kind = "updateStatus"
  /\ response.code = 404
  /\ Len(complaints) > 0
  /\ StoredOn(response.body.date) = {}

\* C10: every stored complaint about the mess or the garden has no room
\* number, whatever the submission supplied; a complaint about another place
\* is stored with the room number supplied; and no later step changes a stored
\* room number.
C10_RoomNumber ==
  /\ [](\A i \in 1..Len(complaints) :
          complaints[i].location \in {"mess", "garden"} => complaints[i].roomNo = Null)
  /\ [][/\ \A i \in 1..Len(complaints) :
             i <= Len(complaints') /\ complaints'[i].roomNo = complaints[i].roomNo
        /\ Len(complaints') # Len(complaints) =>
             \E req \in BagToSet(inflight') :
                /\ req.kind = "submitComplaint"
                /\ inflight' = inflight (+) SetToBag({req})
                /\ req.body.location \notin {"mess", "garden"} =>
                     complaints'[Len(complaints')].roomNo = req.body.roomNo
       ]_vars

\* C10 witness: a complaint about the mess, submitted with a room number and
\* since updated, is stored without one.
C10_Witness ==
  \E i \in 1..Len(complaints) :
     /\ complaints[i].location = "mess"
     /\ complaints[i].roomNo = Null
     /\ complaints[i].status = "Resolved"
     /\ \E j \in RecordsOf(i) : statuses[j].status = "Resolved"

----------------------------------------------------------------------------
(* Further properties of the complaint and status routes *)

\* the first status record that refers to complaint id
FirstRecordOf(id) == CHOOSE j \in RecordsOf(id) : \A k \in RecordsOf(id) : j <= k

\* this step is the save of its complaint by the status update req, which
\* goes on to its status record
UpdateSaved(req) ==
  /\ req.kind = "updateStatus"
  /\ req.pc = "saveComplaint"
  /\ \E next \in BagToSet(inflight') :
       /\ next.kind = "updateStatus"
       /\ next.pc = "saveStatus"
       /\ next.date = req.date
       /\ next.status = req.status
       /\ next.complaint.id = req.complaint.id
       /\ inflight' = (inflight (-) SetToBag({req})) (+) SetToBag({next})

\* this step is the last of the status update req: it leaves with its answer
UpdateAnswered(req) ==
  /\ req.kind = "updateStatus"
  /\ req.pc = "saveStatus"
  /\ inflight' = inflight (-) SetToBag({req})
  /\ response'.kind = "updateStatus"

\* C11: in every reachable state the status of every stored complaint is one
\* of "Yet to Begin", "In Progress", "Resolved", whatever status strings the
\* callers of the status update supplied.
C11_ComplaintStatusInEnum ==
  \A i \in 1..Len(complaints) : complaints[i].status \in StatusEnum

\* C12: no step removes or changes a status record of the log, and no step
\* removes a stored complaint or changes a field of it other than its status.
C12_AppendOnly ==
  [][/\ Len(statuses') >= Len(statuses)
     /\ SubSeq(statuses', 1, Len(statuses)) = statuses
     /\ Len(complaints') >= Len(complaints)
     /\ \A i \in 1..Len(complaints) :
          [complaints'[i] EXCEPT !.status = ""] = [complaints[i] EXCEPT !.status = ""]
    ]_vars

\* C12 witness: a complaint with a room number has been updated twice: the
\* log holds its three records and the complaint its other fields.
C12_Witness ==
  \E i \in 1..Len(complaints) :
     /\ Cardinality(RecordsOf(i)) = 3
     /\ complaints[i].status = "In Progress"
     /\ complaints[i].roomNo = "101"
     /\ statuses[FirstRecordOf(i)].status = "Yet to Begin"
     /\ statuses[LastRecordOf(i)].status = "In Progress"

C15_OnlyTheMatchedComplaint ==
  [][\A req \in BagToSet(inflight) :
       /\ UpdateSaved(req) =>
            /\ complaints[req.complaint.id].date = ParseDate(req.date)
            /\ \A i \in 1..Len(complaints) :
                 i # req.complaint.id => complaints'[i] = complaints[i]
            /\ [complaints'[req.complaint.id] EXCEPT !.status = ""]
                 = [complaints[req.complaint.id] EXCEPT !.status = ""]
            /\ complaints[req.complaint.id].status = req.complaint.status =>
                 complaints'[req.complaint.id].status = req.status
            /\ statuses' = statuses
       /\ (UpdateAnswered(req) /\ response'.code = 200) =>
            /\ complaints' = complaints
            /\ Len(statuses') = Len(statuses) + 1
            /\ SubSeq(statuses', 1, Len(statuses)) = statuses
            /\ statuses'[Len(statuses')].complaintId = req.complaint.id
    ]_vars

\* C15 witness: two complaints of one day are stored; a status update for the
\* day has answered 200, its complaint is resolved and has the record, and the
\* other complaint is as it was submitted.
C15_Witness ==
  /\ response.kind = "updateStatus"
  /\ response.code = 200
  /\ response.body.status = "Resolved"
  /\ \E i, k \in 1..Len(complaints) :
       /\ i # k
       /\ complaints[i].date = complaints[k].date
       /\ response.body.id = i
       /\ complaints[i].status = "Resolved"
       /\ complaints[k].status = "Yet to Begin"
       /\ statuses[Len(statuses)].complaintId = i
       /\ \A j \in RecordsOf(k) : statuses[j].status = "Yet to Begin"

\* C16: whenever no request is in progress and no write has failed, every
\* complaint has one status record more than the status updates of it that
\* answered 200, and the first of its records is the "Yet to Begin" record of
\* its submission.
C16_RecordCount ==
  (AtRest /\ ~writeFailed) =>
    \A i \in 1..Len(complaints) :
       /\ Cardinality(RecordsOf(i)) = 1 + updated[i]
       /\ statuses[FirstRecordOf(i)].status = "Yet to Begin"

\* C19: every submission that stores its complaint adds a new complaint with
\* an _id of its own, also when a complaint with the same fields is stored
\* already, and the record of a submission that answers 201 refers to the
\* complaint that this submission added.
C19_SubmitNotIdempotent ==
  /\ [](\A i \in 1..Len(complaints) : complaints[i].id = i)
  /\ [](\A req \in BagToSet(inflight) :
          req.kind = "submitComplaint" =>
            /\ CopiesIn(req, inflight) = 1
            /\ req.complaint.id \in 1..Len(complaints)
            /\ [complaints[req.complaint.id] EXCEPT !.status = ""]
                 = [req.complaint EXCEPT !.status = ""])
  /\ [][/\ \A req \in BagToSet(inflight') :
             (req.kind = "submitComplaint" /\ inflight' = inflight (+) SetToBag({req})) =>
               /\ Len(complaints') = Len(complaints) + 1
               /\ req.complaint.id = Len(complaints')
        /\ \A req \in BagToSet(inflight) :
             (/\ req.kind = "submitComplaint"
              /\ inflight' = inflight (-) SetToBag({req})
              /\ response'.code = 201) =>
               /\ statuses' = Append(statuses, statuses'[Len(statuses')])
               /\ statuses'[Len(statuses')].complaintId = req.complaint.id
       ]_vars

\* C19 witness: the same submission was made twice and answered 201 twice: two
\* complaints that differ in their _id alone are stored, and each has its own
\* record.
C19_Witness ==
  /\ response.kind = "submitComplaint"
  /\ response.code = 201
  /\ Len(complaints) = 2
  /\ [complaints[1] EXCEPT !.id = 0] = [complaints[2] EXCEPT !.id = 0]
  /\ Cardinality(RecordsOf(1)) = 1
  /\ Cardinality(RecordsOf(2)) = 1
  /\ [statuses[1] EXCEPT !.complaintId = 0] = [statuses[2] EXCEPT !.complaintId = 0]

\* C20: in every reachable state every status record refers to a stored
\* complaint and has one of the three statuses; a status update with another
\* status string appends no record and does not answer 200.
C20_RecordsWellFormed ==
  /\ [](\A j \in 1..Len(statuses) :
          /\ statuses[j].complaintId \in 1..Len(complaints)
          /\ statuses[j].status \in StatusEnum)
  /\ [][\A req \in BagToSet(inflight) :
          (/\ req.kind = "updateStatus"
           /\ req.status \notin StatusEnum
           /\ inflight' # inflight
           /\ inflight' = inflight (-) SetToBag({req})) =>
             /\ statuses' = statuses
             /\ response'.code = 500
       ]_vars

\* C20 witness: a status update to "Closed" has stored the status in its
\* complaint and failed on its record: no record of the log says "Closed".
C20_Witness ==
  /\ response.kind = "updateStatus"
  /\ response.code = 500
  /\ response.error = "validation"
  /\ response.body.status = "Closed"
  /\ complaints[response.body.id].status = "Closed"
  /\ statuses # <<>>

----------------------------------------------------------------------------
(* Further properties of the authentication routes *)

OtherClass(class) == IF class = "user" THEN "admin" ELSE "user"

\* C14: the routes of one account class leave the collection of the other
\* class as it is, and their answers follow from the collection of their own
\* class: a signup is refused for a name or an e-mail in use only when an
\* account of its own class has it, and a login is told "Invalid username"
\* exactly when no account of its own class has the username.
C14_SeparateNamespaces ==
  [][/\ response'.kind \in {"userSignup", "userLogin"} => admins' = admins
     /\ response'.kind \in {"adminSignup", "adminLogin"} => users' = users
     /\ users' # users => admins' = admins
     /\ (/\ response'.kind \in {"userSignup", "adminSignup"}
         /\ \/ response'.text \in {EmailRegistered, UsernameTaken}
            \/ response'.error = "duplicate key") =>
           LET coll == Collection(ClassOf(response'.kind)) IN
           \/ HasEmail(coll, response'.body.email)
           \/ HasUsername(coll, response'.body.username)
     /\ (/\ response'.kind \in {"userLogin", "adminLogin"}
         /\ response'.error # "storage") =>
           (response'.text = "Invalid username" <=>
              ~HasUsername(Collection(ClassOf(response'.kind)), response'.body.username))
    ]_vars

\* C14 witness: a signup succeeds with a username and an e-mail that an
\* account of the other class has.
C14_Witness ==
  /\ response.kind \in {"userSignup", "adminSignup"}
  /\ response.code = 201
  /\ HasUsername(Collection(OtherClass(ClassOf(response.kind))), response.body.username)
  /\ HasEmail(Collection(OtherClass(ClassOf(response.kind))), response.body.email)
  /\ HasUsername(Collection(ClassOf(response.kind)), response.body.username)

----------------------------------------------------------------------------
(* Termination and isolation of failures, complaint and status routes *)

\* C17: every request in progress comes to its end; a request ends with one
\* response, of its own route, and no step ends two requests or ends one
\* without a response; a step that meets a storage failure answers 500, ends
\* at most its own request, leaves the other requests in progress and both
\* collections as they were, and the server goes on taking requests.
C17_OneResponseEach ==
  /\ []<>AtRest
  /\ [](Ready => ENABLED UpdateStatusFind)
  /\ [](~Ready => ENABLED Deliver)
  /\ [][/\ BagCardinality(inflight') < BagCardinality(inflight) =>
             \E req \in BagToSet(inflight) :
                /\ inflight' = inflight (-) SetToBag({req})
                /\ response'.kind = req.kind
                /\ response'.code \in {200, 201, 500}
        /\ (response'.kind = "none" \/ response.kind # "none") =>
             BagCardinality(inflight') >= BagCardinality(inflight)
        /\ response'.kind # "none" => response.kind = "none"
        /\ (response'.kind # "none" /\ response'.error = "storage") =>
             /\ response'.code = 500
             /\ UNCHANGED <<complaints, statuses>>
             /\ \/ inflight' = inflight
                \/ \E req \in BagToSet(inflight) :
                     /\ req.kind = response'.kind
                     /\ inflight' = inflight (-) SetToBag({req})
       ]_vars

\* C17 witness: the record of a status update could not be stored and the
\* update is answered 500, while a submission is still in progress.
C17_Witness ==
  /\ response.kind = "updateStatus"
  /\ response.code = 500
  /\ response.error = "storage"
  /\ response.body.id # 0
  /\ \E req \in BagToSet(inflight) : req.kind = "submitComplaint"

----------------------------------------------------------------------------
(* Properties of the routes that only read *)

Base64Value(char) == (CHOOSE i \in 1..64 : Base64Alphabet[i] = char) - 1

\* the bytes that a base64 text stands for
RECURSIVE Base64Decode(_)
Base64Decode(chars) ==
  IF Len(chars) < 4
    THEN <<>>
    ELSE LET a == Base64Value(chars[1])
             b == Base64Value(chars[2])
         IN  IF chars[3] = "="
               THEN <<a * 4 + b \div 16>>
               ELSE LET c == Base64Value(chars[3]) IN
                    IF chars[4] = "="
                      THEN <<a * 4 + b \div 16, (b % 16) * 16 + c \div 4>>
                      ELSE <<a * 4 + b \div 16, (b % 16) * 16 + c \div 4,
                             (c % 4) * 64 + Base64Value(chars[4])>>
                           \o Base64Decode(SubSeq(chars, 5, Len(chars)))

\* C18: a login, a listing of the complaints and a listing of the status
\* history leave the account collections, the complaints and the log as they
\* were, whatever their answer; a listing of the complaints that answers 200
\* returns one view for each stored complaint, with the fields of the
\* complaint, whose image is null exactly when the complaint has no image data
\* and is otherwise "data:", the stored content type, ";base64," and a base64
\* text of the stored bytes.
C18_ReadOnly ==
  [][/\ response'.kind \in {"userLogin", "adminLogin", "getComplaints", "getStatus"} =>
          UNCHANGED <<users, admins, complaints, statuses>>
     /\ (response'.kind = "getComplaints" /\ response'.code = 200) =>
          /\ Len(response'.body.views) = Len(complaints)
          /\ \A i \in 1..Len(complaints) :
               LET view == response'.body.views[i] IN
               /\ [view EXCEPT !.image = NoImage] = [complaints[i] EXCEPT !.image = NoImage]
               /\ view.image.null <=> ~complaints[i].image.present
               /\ complaints[i].image.present =>
                    /\ Len(view.image.uri) = 4
                    /\ view.image.uri[1] = "data:"
                    /\ view.image.uri[2] = complaints[i].image.contentType
                    /\ view.image.uri[3] = ";base64,"
                    /\ Base64Decode(view.image.uri[4]) = complaints[i].image.data
    ]_vars

\* C18 witness: a listing answers with the views of a complaint that has a
\* picture, as the data URI of a PNG, and of one that has none.
C18_Witness ==
  /\ response.kind = "getComplaints"
  /\ response.code = 200
  /\ \E i, k \in 1..Len(response.body.views) :
       /\ response.body.views[i].image.null
       /\ ~response.body.views[k].image.null
       /\ response.body.views[k].image.uri =
            <<"data:", "image/png", ";base64,", <<"i", "V", "B", "O", "R", "w", "=", "=">> >>
  /\ statuses # <<>>

====
